---------------------------- MODULE Spec2Model ----------------------------
(***************************************************************************)
(* ATSR - Sprint Regular: peer-evaluation form (atrs_form_app.py).         *)
(*                                                                         *)
(* Every browser session re-runs the script on each interaction.  The      *)
(* evaluator page renders one slider block per colleague, which stores the *)
(* slider values in the session's "avaliacoes"; the submit button then     *)
(* appends one CSV line per colleague through salvar_linha_csv.  The       *)
(* organizer page reads the CSV file, consolidates it and ranks it.        *)
(*                                                                         *)
(* Scores are kept in half points (0..20 stands for 0.0..10.0), means in   *)
(* hundredths.  CSV cells are strings, as csv.writer writes them.          *)
(***************************************************************************)
EXTENDS Integers, Sequences, FiniteSets, TLC

(* ------------------------------ bounds -------------------------------- *)
NumSessoes == 2
MaxEventos == 4
MaxEventosForm == 5
MaxLinhas == 3

Sessoes == 1..NumSessoes

(* ------------------------------ CONFIG -------------------------------- *)
\* strings are written without the accents of the source
CRITERIOS ==
  << "Comunicacao",
     "Eficiencia durante o processo",
     "Participacao e presenca",
     "Processo criativo e insights",
     "Responsabilidade e precedencia" >>

NomesSubgrupos == << "Subgrupo 01", "Subgrupo 02", "Subgrupo 03" >>

SUBGRUPOS ==
  [ sg \in { NomesSubgrupos[i] : i \in 1..Len(NomesSubgrupos) } |->
      CASE sg = "Subgrupo 01" ->
             << "Artur Prazeres", "Filipe Correia", "Thiago Carvalho", "Walter Maia" >>
        [] sg = "Subgrupo 02" ->
             << "Joao Carlos", "Joao Patriota", "Joao Pessoa", "Mateus Dornellas" >>
        [] sg = "Subgrupo 03" ->
             << "Antonio Manoel", "Breno Santiago", "Gabriel Ribeiro", "Joao Henrique" >> ]

TODOS_NOMES ==
  SUBGRUPOS["Subgrupo 01"] \o SUBGRUPOS["Subgrupo 02"] \o SUBGRUPOS["Subgrupo 03"]

SENHA_ORGANIZADOR == "organizador"

SELECIONE == "-- selecione --"

None == "None"

(* ------------------------------ helpers ------------------------------- *)
Elems(seq) == { seq[i] : i \in 1..Len(seq) }

RECURSIVE Soma(_)
Soma(seq) == IF seq = << >> THEN 0 ELSE Head(seq) + Soma(Tail(seq))

RECURSIVE Filtrar(_, _)
Filtrar(seq, fora) ==
  IF seq = << >> THEN << >>
  ELSE IF Head(seq) \in fora THEN Filtrar(Tail(seq), fora)
       ELSE << Head(seq) >> \o Filtrar(Tail(seq), fora)

\* for sg, nomes in SUBGRUPOS.items(): if nome in nomes: return sg; return None
get_subgrupo_do_nome(nome) ==
  LET achados == { i \in 1..Len(NomesSubgrupos) : nome \in Elems(SUBGRUPOS[NomesSubgrupos[i]]) }
  IN  IF achados = {} THEN None
      ELSE NomesSubgrupos[CHOOSE i \in achados : \A j \in achados : i <= j]

cabecalho_csv ==
  << "timestamp", "avaliador_nome", "avaliador_subgrupo", "avaliado_nome" >>
    \o CRITERIOS \o << "media_5_criterios" >>

\* [n for n in SUBGRUPOS[subgrupo] if n != avaliador_nome]
ColegasComProprio(avaliador_nome) == SUBGRUPOS[get_subgrupo_do_nome(avaliador_nome)]

Colegas(avaliador_nome) ==
  Filtrar(SUBGRUPOS[get_subgrupo_do_nome(avaliador_nome)], { avaliador_nome })

(* ----------------------- formatting of CSV cells ---------------------- *)
\* datetime.now().isoformat(timespec="seconds"); the clock counts seconds
Isoformat(t) ==
  "2025-01-01T00:00:" \o ToString((t \div 10) % 10) \o ToString(t % 10)

\* csv.writer writes a float score as repr(float): 7.5 -> "7.5", 10.0 -> "10.0"
FloatStr(meios) ==
  ToString(meios \div 2) \o (IF meios % 2 = 1 THEN ".5" ELSE ".0")

\* num/den rounded to the nearest integer, ties to even
ArredondaPar(num, den) ==
  LET q == num \div den
      r == num % den
  IN  IF 2 * r > den THEN q + 1
      ELSE IF 2 * r < den THEN q
      ELSE q + (q % 2)

\* sum(notas.values()) / len(notas), in hundredths as "{:.2f}" rounds it
MediaTruncada(notas) == (Soma(notas) * 100) \div (2 * (Len(notas) - 1))

MediaCentesimos(notas) == ArredondaPar(Soma(notas) * 100, 2 * Len(notas))

\* f"{media:.2f}"
Fmt2(c) ==
  ToString(c \div 100) \o "." \o ToString((c \div 10) % 10) \o ToString(c % 10)

\* the timestamp of a line: ts, read from the clock once, before the loop
TimestampPorLinha(capturado, relogio) == Isoformat(relogio)

TimestampDaLinha(capturado, relogio) == capturado

\* the CSV line built in the submit loop (lines 140-147)
Linha(ts_, avaliador_nome, subgrupo, colega, notas) ==
  << ts_, avaliador_nome, subgrupo, colega >>
    \o [ i \in 1..Len(CRITERIOS) |-> FloatStr(notas[i]) ]
    \o << Fmt2(MediaCentesimos(notas)) >>

(* ------------------------------- state -------------------------------- *)
VARIABLES
  existe,        \* ARQUIVO_SAIDA.exists()
  arquivo,       \* the lines of respostas_ATSR.csv, each a sequence of cells
  agora,         \* the clock read by datetime.now(), in seconds
  modo,          \* per session: the sidebar radio
  nome,          \* per session: the "Quem e voce?" selectbox
  senha,         \* per session: the organizer's password field
  sliders,       \* per session: colleague -> the five slider values shown
  avaliacoes,    \* per session: st.session_state["avaliacoes"]
  pc,            \* per session: where its script run stands
  colegasRun,    \* per session: the list "colegas" of the run in progress
  idx,           \* per session: position of the submit loop in colegasRun
  ts,            \* per session: the timestamp captured by the run
  novo_arquivo,  \* per session: the local of salvar_linha_csv
  mensagem,      \* per session: what the last run of the evaluator page showed
  painel,        \* per session: what the last run of the organizer page showed
  enviadas,      \* history: the lines the session's last submit run appended
  reenvio,       \* history: that run was started right after a successful one
  faltavam,      \* history: colleagues absent from avaliacoes when it was started
  eventos        \* number of interactions with the form and clock ticks so far

vars ==
  << existe, arquivo, agora, modo, nome, senha, sliders, avaliacoes, pc,
     colegasRun, idx, ts, novo_arquivo, mensagem, painel, enviadas,
     reenvio, faltavam, eventos >>

arquivoVars == << existe, arquivo >>

runVars ==
  << pc, colegasRun, idx, ts, novo_arquivo, enviadas, reenvio, faltavam >>

\* inputs the sessions choose from
NomesEscolhiveis == { "Artur Prazeres", "Walter Maia", "Joao Pessoa" }

NotasEscolhiveis == { 15 }

CriteriosMovidos == { 1, 5 }

NOTA_INICIAL == 10

SemNotas == [ n \in {} |-> << >> ]

\* the sliders of a freshly rendered page: value=5.0 for every criterion
SlidersIniciais(avaliador_nome) ==
  IF avaliador_nome = SELECIONE THEN SemNotas
  ELSE [ c \in Elems(Colegas(avaliador_nome)) |->
           [ i \in 1..Len(CRITERIOS) |-> NOTA_INICIAL ] ]

PainelVazio == [ estado |-> "nenhum", resumo |-> << >>, geral |-> << >> ]

Init ==
  /\ existe = FALSE
  /\ arquivo = << >>
  /\ agora = 0
  /\ modo = [ s \in Sessoes |-> "Avaliador" ]
  /\ nome = [ s \in Sessoes |-> SELECIONE ]
  /\ senha = [ s \in Sessoes |-> "" ]
  /\ sliders = [ s \in Sessoes |-> SemNotas ]
  /\ avaliacoes = [ s \in Sessoes |-> SemNotas ]
  /\ pc = [ s \in Sessoes |-> "idle" ]
  /\ colegasRun = [ s \in Sessoes |-> << >> ]
  /\ idx = [ s \in Sessoes |-> 0 ]
  /\ ts = [ s \in Sessoes |-> "" ]
  /\ novo_arquivo = [ s \in Sessoes |-> FALSE ]
  /\ mensagem = [ s \in Sessoes |-> "selecione" ]
  /\ painel = [ s \in Sessoes |-> PainelVazio ]
  /\ enviadas = [ s \in Sessoes |-> << >> ]
  /\ reenvio = [ s \in Sessoes |-> FALSE ]
  /\ faltavam = [ s \in Sessoes |-> << >> ]
  /\ eventos = 0

(* --------------------------- evaluator page --------------------------- *)
\* the loop "for colega in colegas: bloco_avaliacao(...)": every block stores
\* the values of its sliders under the colleague's name
bloco_avaliacao(avs, colegas, sl) ==
  [ n \in (DOMAIN avs) \cup Elems(colegas) |->
      IF n \in Elems(colegas) THEN sl[n] ELSE avs[n] ]

\* [c for c in colegas if c not in st.session_state.get("avaliacoes", {})]
Faltando(colegas, avs) == Filtrar(colegas, DOMAIN avs)

\* a run of pagina_avaliador without the button: lines 107-128
RenderAvaliador(s, nm, sl) ==
  IF nm = SELECIONE
    THEN /\ mensagem' = [ mensagem EXCEPT ![s] = "selecione" ]
         /\ UNCHANGED avaliacoes
    ELSE IF get_subgrupo_do_nome(nm) = None
    THEN /\ mensagem' = [ mensagem EXCEPT ![s] = "nao_mapeado" ]
         /\ UNCHANGED avaliacoes
    ELSE /\ mensagem' = [ mensagem EXCEPT ![s] = "formulario" ]
         /\ avaliacoes' =
              [ avaliacoes EXCEPT ![s] = bloco_avaliacao(@, Colegas(nm), sl) ]

SelecionarNome(s, nm) ==
  /\ pc[s] = "idle"
  /\ modo[s] = "Avaliador"
  /\ nm # nome[s]
  /\ nome' = [ nome EXCEPT ![s] = nm ]
  /\ sliders' = [ sliders EXCEPT ![s] = SlidersIniciais(nm) ]
  /\ RenderAvaliador(s, nm, SlidersIniciais(nm))
  /\ eventos' = eventos + 1
  /\ UNCHANGED << arquivoVars, agora, modo, senha, runVars, painel >>

MoverSlider(s, colega, i, v) ==
  /\ pc[s] = "idle"
  /\ modo[s] = "Avaliador"
  /\ nome[s] # SELECIONE
  /\ colega \in DOMAIN sliders[s]
  /\ v # sliders[s][colega][i]
  /\ eventos' = eventos + 1
  /\ sliders' = [ sliders EXCEPT ![s][colega][i] = v ]
  /\ RenderAvaliador(s, nome[s], sliders'[s])
  /\ UNCHANGED << arquivoVars, agora, modo, nome, senha, runVars, painel >>

\* the run started by "Enviar minhas avaliacoes": lines 107-136
ClicarEnviar(s) ==
  /\ pc[s] = "idle"
  /\ modo[s] = "Avaliador"
  /\ nome[s] # SELECIONE
  /\ get_subgrupo_do_nome(nome[s]) # None
  /\ eventos' = eventos + 1
  /\ LET colegas == Colegas(nome[s])
         avs == bloco_avaliacao(avaliacoes[s], colegas, sliders[s])
     IN  /\ avaliacoes' = [ avaliacoes EXCEPT ![s] = avs ]
         /\ reenvio' = [ reenvio EXCEPT ![s] = (mensagem[s] = "sucesso") ]
         /\ faltavam' = [ faltavam EXCEPT ![s] = Faltando(colegas, avaliacoes[s]) ]
         /\ enviadas' = [ enviadas EXCEPT ![s] = << >> ]
         /\ IF Faltando(colegas, avs) # << >>
              THEN /\ mensagem' = [ mensagem EXCEPT ![s] = "aviso_faltando" ]
                   /\ UNCHANGED << pc, colegasRun, idx, ts >>
              ELSE /\ mensagem' = [ mensagem EXCEPT ![s] = "enviando" ]
                   /\ ts' = [ ts EXCEPT ![s] = Isoformat(agora) ]
                   /\ colegasRun' = [ colegasRun EXCEPT ![s] = colegas ]
                   /\ idx' = [ idx EXCEPT ![s] = 1 ]
                   /\ pc' = [ pc EXCEPT ![s] = "exists" ]
  /\ UNCHANGED << arquivoVars, agora, modo, nome, senha, sliders, novo_arquivo,
                  painel >>

(* -------------------------- salvar_linha_csv -------------------------- *)
\* novo_arquivo = not ARQUIVO_SAIDA.exists()
SalvarExists(s) ==
  /\ pc[s] = "exists"
  /\ novo_arquivo' = [ novo_arquivo EXCEPT ![s] = ~existe ]
  /\ pc' = [ pc EXCEPT ![s] = "open" ]
  /\ UNCHANGED << arquivoVars, agora, modo, nome, senha, sliders, avaliacoes,
                  colegasRun, idx, ts, mensagem, painel, enviadas,
                  reenvio, faltavam, eventos >>

\* what open(mode) leaves of the lines already in the file
AbrirTruncando(linhas) == << >>

AbrirAppend(linhas) == linhas

\* ARQUIVO_SAIDA.open("a", ...): creates the file when it is missing
SalvarOpen(s) ==
  /\ pc[s] = "open"
  /\ existe' = TRUE
  /\ arquivo' = AbrirAppend(arquivo)
  /\ pc' = [ pc EXCEPT ![s] = "write" ]
  /\ UNCHANGED << agora, modo, nome, senha, sliders, avaliacoes, colegasRun,
                  idx, ts, novo_arquivo, mensagem, painel, enviadas, reenvio,
                  faltavam, eventos >>

\* the lines one call hands to the writer: the header for a new file, the line
LinhasAEscrever(novo, linha) ==
  (IF novo THEN << cabecalho_csv >> ELSE << >>) \o << linha >>

\* the body of the "with" block and its exit.  writer.writerow(cabecalho_csv())
\* if novo_arquivo and writer.writerow(linha) fill the buffer of the file
\* object, which no other session sees; closing the file appends the buffer in
\* one write.  After the last colleague the run ends: success message, and
\* st.session_state["avaliacoes"] = {}
SalvarWriterowClose(s) ==
  /\ pc[s] = "write"
  /\ LET colega == colegasRun[s][idx[s]]
         linha == Linha(TimestampDaLinha(ts[s], agora), nome[s], get_subgrupo_do_nome(nome[s]), colega,
                        avaliacoes[s][colega])
     IN  /\ arquivo' = arquivo \o LinhasAEscrever(novo_arquivo[s], linha)
         /\ enviadas' = [ enviadas EXCEPT ![s] = Append(@, linha) ]
  /\ IF idx[s] < Len(colegasRun[s])
       THEN /\ idx' = [ idx EXCEPT ![s] = @ + 1 ]
            /\ pc' = [ pc EXCEPT ![s] = "exists" ]
            /\ UNCHANGED << mensagem, avaliacoes >>
       ELSE /\ idx' = [ idx EXCEPT ![s] = 0 ]
            /\ pc' = [ pc EXCEPT ![s] = "idle" ]
            /\ mensagem' = [ mensagem EXCEPT ![s] = "sucesso" ]
            /\ avaliacoes' = [ avaliacoes EXCEPT ![s] = SemNotas ]
  /\ novo_arquivo' = [ novo_arquivo EXCEPT ![s] = FALSE ]
  /\ UNCHANGED << existe, agora, modo, nome, senha, sliders, colegasRun, ts,
                  painel, reenvio, faltavam, eventos >>

Tick ==
  /\ agora' = agora + 1
  /\ eventos' = eventos + 1
  /\ UNCHANGED << arquivoVars, modo, nome, senha, sliders, avaliacoes, runVars,
                  mensagem, painel >>

(* ------------------------------ aggregator ---------------------------- *)
NaN == -1

\* the marker of consolidar_atrs for a name of no subgroup (U+2014 in the source)
DESCONHECIDO == "-"

MaxCentesimos == 1000

\* the cells that read as a number, with the number in hundredths: the
\* two-decimal form "7.50" and the float form "7.5"
CelulasNumericas ==
  { << Fmt2(c), c >> : c \in 0..MaxCentesimos }
    \cup { << FloatStr(m), 50 * m >> : m \in 0..20 }

TabelaNumerica ==
  [ txt \in { par[1] : par \in CelulasNumericas } |->
      (CHOOSE par \in CelulasNumericas : par[1] = txt)[2] ]

\* pd.to_numeric(cell, errors='coerce'), in hundredths: a cell that is no
\* number becomes NaN
ToNumericZero(cell) ==
  IF cell \in DOMAIN TabelaNumerica THEN TabelaNumerica[cell] ELSE 0

ToNumeric(cell) ==
  IF cell \in DOMAIN TabelaNumerica THEN TabelaNumerica[cell] ELSE NaN

\* Python's order of the strings that occur in the columns Subgrupo and
\* avaliado_nome (code points; the marker U+2014 follows every letter)
OrdemTexto ==
  << "Antonio Manoel", "Artur Prazeres", "Breno Santiago", "Filipe Correia",
     "Gabriel Ribeiro", "Joao Carlos", "Joao Henrique", "Joao Patriota",
     "Joao Pessoa", "Mateus Dornellas", "Subgrupo 01", "Subgrupo 02",
     "Subgrupo 03", "Thiago Carvalho", "Walter Maia", "Zeca Visitante",
     "avaliado_nome", "-" >>

Lex(txt) == CHOOSE i \in 1..Len(OrdemTexto) : OrdemTexto[i] = txt

\* sorted, distinct group keys of groupby
RECURSIVE InserirNome(_, _)
InserirNome(x, seq) ==
  IF seq = << >> THEN << x >>
  ELSE IF Lex(x) < Lex(Head(seq)) THEN << x >> \o seq
       ELSE << Head(seq) >> \o InserirNome(x, Tail(seq))

RECURSIVE OrdenarNomes(_)
OrdenarNomes(seq) ==
  IF seq = << >> THEN << >>
  ELSE InserirNome(seq[Len(seq)], OrdenarNomes(SubSeq(seq, 1, Len(seq) - 1)))

RECURSIVE SemRepetir(_)
SemRepetir(seq) ==
  IF seq = << >> THEN << >>
  ELSE << Head(seq) >> \o SemRepetir(Filtrar(Tail(seq), { Head(seq) }))

Coluna(columns, titulo) == CHOOSE i \in 1..Len(columns) : columns[i] = titulo

\* pd.read_csv: the first line names the columns, the others are the rows
read_csv(linhas) == [ columns |-> Head(linhas), rows |-> Tail(linhas) ]

\* next((sg for sg, nomes in SUBGRUPOS.items() if nome in nomes), marker)
subgrupo_avaliado(nm) ==
  IF get_subgrupo_do_nome(nm) = None THEN DESCONHECIDO ELSE get_subgrupo_do_nome(nm)

\* Series.mean() skips NaN; the mean of no value is NaN.  round(2) follows.
MediaArredondada(valores) ==
  LET bons == Filtrar(valores, { NaN })
  IN  IF bons = << >> THEN NaN ELSE ArredondaPar(Soma(bons), Len(bons))

\* df.groupby('avaliado_nome', as_index=False).agg(ATSR=(..., 'mean')): one
\* row per name, the names in ascending order
consolidar_atrs(df) ==
  LET cn == Coluna(df.columns, "avaliado_nome")
      cm == Coluna(df.columns, "media_5_criterios")
      n == Len(df.rows)
      nomesOrd ==
        OrdenarNomes(SemRepetir([ i \in 1..n |-> df.rows[i][cn] ]))
      Valores(nm) ==
        LET RECURSIVE De(_)
            De(i) == IF i > n THEN << >>
                     ELSE (IF df.rows[i][cn] = nm
                             THEN << ToNumeric(df.rows[i][cm]) >> ELSE << >>)
                          \o De(i + 1)
        IN  De(1)
  IN  [ k \in 1..Len(nomesOrd) |->
          [ Subgrupo |-> subgrupo_avaliado(nomesOrd[k]),
            Integrante |-> nomesOrd[k],
            ATSR |-> MediaArredondada(Valores(nomesOrd[k])) ] ]

\* the order of sort_values(['ATSR', 'Subgrupo', 'Integrante'],
\* ascending=[False, True, True]); NaN goes last
AntesSoATSR(a, b) ==
  /\ a.ATSR # b.ATSR
  /\ \/ b.ATSR = NaN
     \/ a.ATSR # NaN /\ a.ATSR > b.ATSR

AntesGeral(a, b) ==
  IF a.ATSR # b.ATSR
    THEN \/ b.ATSR = NaN
         \/ a.ATSR # NaN /\ a.ATSR > b.ATSR
    ELSE IF a.Subgrupo # b.Subgrupo THEN Lex(a.Subgrupo) < Lex(b.Subgrupo)
    ELSE Lex(a.Integrante) < Lex(b.Integrante)

\* sort_values is a stable sort on the three keys
RECURSIVE InserirGeral(_, _)
InserirGeral(x, seq) ==
  IF seq = << >> THEN << x >>
  ELSE IF AntesGeral(x, Head(seq)) THEN << x >> \o seq
       ELSE << Head(seq) >> \o InserirGeral(x, Tail(seq))

RECURSIVE OrdenarGeral(_)
OrdenarGeral(seq) ==
  IF seq = << >> THEN << >>
  ELSE InserirGeral(seq[Len(seq)], OrdenarGeral(SubSeq(seq, 1, Len(seq) - 1)))

\* ...reset_index(drop=True); geral.index = geral.index + 1
RankingGeral(resumo) ==
  LET ord == OrdenarGeral(resumo)
  IN  [ k \in 1..Len(ord) |->
          [ indice |-> (k - 1) + 1, Subgrupo |-> ord[k].Subgrupo,
            Integrante |-> ord[k].Integrante, ATSR |-> ord[k].ATSR ] ]

(* --------------------------- organizer page --------------------------- *)
\* what a run of pagina_organizador shows, for the password typed and the
\* file as it is: lines 198-244
RenderOrganizador(txt) ==
  IF txt # SENHA_ORGANIZADOR
    THEN [ estado |-> "info_senha", resumo |-> << >>, geral |-> << >> ]
  ELSE IF ~existe
    THEN [ estado |-> "sem_respostas", resumo |-> << >>, geral |-> << >> ]
  ELSE IF arquivo = << >>
    \* pd.read_csv raises EmptyDataError on a file of no bytes
    THEN [ estado |-> "erro", resumo |-> << >>, geral |-> << >> ]
  ELSE IF read_csv(arquivo).rows = << >>
    THEN [ estado |-> "sem_respostas", resumo |-> << >>, geral |-> << >> ]
  ELSE IF ~ { "avaliado_nome", "media_5_criterios" } \subseteq Elems(read_csv(arquivo).columns)
    \* df['media_5_criterios'] raises KeyError
    THEN [ estado |-> "erro", resumo |-> << >>, geral |-> << >> ]
  ELSE [ estado |-> "tabelas",
         resumo |-> consolidar_atrs(read_csv(arquivo)),
         geral |-> RankingGeral(consolidar_atrs(read_csv(arquivo))) ]

\* the sidebar radio; the widgets of the page left lose their values
SelecionarModo(s, m) ==
  /\ pc[s] = "idle"
  /\ m # modo[s]
  /\ modo' = [ modo EXCEPT ![s] = m ]
  /\ nome' = [ nome EXCEPT ![s] = SELECIONE ]
  /\ sliders' = [ sliders EXCEPT ![s] = SemNotas ]
  /\ senha' = [ senha EXCEPT ![s] = "" ]
  /\ IF m = "Organizador"
       THEN /\ painel' = [ painel EXCEPT ![s] = RenderOrganizador("") ]
            /\ mensagem' = [ mensagem EXCEPT ![s] = "nenhuma" ]
       ELSE /\ painel' = [ painel EXCEPT ![s] = PainelVazio ]
            /\ mensagem' = [ mensagem EXCEPT ![s] = "selecione" ]
  /\ UNCHANGED << arquivoVars, agora, avaliacoes, runVars, eventos >>

DigitarSenha(s, txt) ==
  /\ pc[s] = "idle"
  /\ modo[s] = "Organizador"
  /\ txt # senha[s]
  /\ senha' = [ senha EXCEPT ![s] = txt ]
  /\ painel' = [ painel EXCEPT ![s] = RenderOrganizador(txt) ]
  /\ UNCHANGED << arquivoVars, agora, modo, nome, sliders, avaliacoes, runVars,
                  mensagem, eventos >>

\* a click on a download button re-runs the page, which reads the file again
ClicarBaixar(s) ==
  /\ pc[s] = "idle"
  /\ modo[s] = "Organizador"
  /\ painel[s].estado = "tabelas"
  /\ painel' = [ painel EXCEPT ![s] = RenderOrganizador(senha[s]) ]
  /\ UNCHANGED << arquivoVars, agora, modo, nome, senha, sliders, avaliacoes,
                  runVars, mensagem, eventos >>

(* --------------------------- specifications --------------------------- *)
\* inputs of the sessions that run side by side
NomesConcorrentes == { "Artur Prazeres", "Joao Pessoa" }

\* Several sessions, each on either page, their runs interleaved at the
\* operations on the file; up to MaxEventos interactions with the form in all.
Next ==
  \/ /\ eventos < MaxEventos
     /\ \/ \E s \in Sessoes, nm \in NomesConcorrentes \cup { SELECIONE } :
             SelecionarNome(s, nm)
        \/ \E s \in Sessoes : ClicarEnviar(s)
  \/ \E s \in Sessoes : SalvarExists(s)
  \/ \E s \in Sessoes : SalvarOpen(s)
  \/ \E s \in Sessoes : SalvarWriterowClose(s)
  \/ \E s \in Sessoes, m \in { "Avaliador", "Organizador" } : SelecionarModo(s, m)
  \/ \E s \in Sessoes : DigitarSenha(s, SENHA_ORGANIZADOR)
  \/ \E s \in Sessoes : ClicarBaixar(s)

Spec == Init /\ [][Next]_vars

\* One session filling in and sending the form while the clock ticks; up to
\* MaxEventosForm interactions and ticks in all.
NextForm ==
  \/ /\ eventos < MaxEventosForm
     /\ \/ \E nm \in NomesEscolhiveis \cup { SELECIONE } : SelecionarNome(1, nm)
        \/ \E c \in Elems(TODOS_NOMES), i \in CriteriosMovidos, v \in NotasEscolhiveis :
             MoverSlider(1, c, i, v)
        \/ ClicarEnviar(1)
        \/ Tick
  \/ SalvarExists(1)
  \/ SalvarOpen(1)
  \/ SalvarWriterowClose(1)

SpecForm == Init /\ [][NextForm]_vars

\* The organizer page over a file of any lines: the header and up to
\* MaxLinhas records, of people inside and outside the roster, whose mean
\* cell may be no number.
NomesAvaliados == { "Artur Prazeres", "Walter Maia", "Joao Pessoa", "Zeca Visitante" }

MediasLidas == { "7.00", "8.00", "9.00", "n/a" }

SenhasDigitadas == { SENHA_ORGANIZADOR, "errada" }

LinhaLida(nm, cel) ==
  << Isoformat(0), "Filipe Correia", "Subgrupo 01", nm >>
    \o [ i \in 1..Len(CRITERIOS) |-> FloatStr(NOTA_INICIAL) ] \o << cel >>

ArquivosLidos ==
  { << cabecalho_csv >> \o [ i \in 1..Len(f) |-> LinhaLida(f[i][1], f[i][2]) ] :
      f \in UNION { [ 1..n -> NomesAvaliados \X MediasLidas ] : n \in 0..MaxLinhas } }

InitAgg ==
  /\ existe = TRUE
  /\ arquivo \in ArquivosLidos
  /\ agora = 0
  /\ modo = [ s \in Sessoes |-> "Avaliador" ]
  /\ nome = [ s \in Sessoes |-> SELECIONE ]
  /\ senha = [ s \in Sessoes |-> "" ]
  /\ sliders = [ s \in Sessoes |-> SemNotas ]
  /\ avaliacoes = [ s \in Sessoes |-> SemNotas ]
  /\ pc = [ s \in Sessoes |-> "idle" ]
  /\ colegasRun = [ s \in Sessoes |-> << >> ]
  /\ idx = [ s \in Sessoes |-> 0 ]
  /\ ts = [ s \in Sessoes |-> "" ]
  /\ novo_arquivo = [ s \in Sessoes |-> FALSE ]
  /\ mensagem = [ s \in Sessoes |-> "selecione" ]
  /\ painel = [ s \in Sessoes |-> PainelVazio ]
  /\ enviadas = [ s \in Sessoes |-> << >> ]
  /\ reenvio = [ s \in Sessoes |-> FALSE ]
  /\ faltavam = [ s \in Sessoes |-> << >> ]
  /\ eventos = 0

NextAgg ==
  \/ \E m \in { "Avaliador", "Organizador" } : SelecionarModo(1, m)
  \/ \E txt \in SenhasDigitadas : DigitarSenha(1, txt)
  \/ ClicarBaixar(1)

SpecAgg == InitAgg /\ [][NextAgg]_vars

(* ------------------------------- claims ------------------------------- *)
Abs(x) == IF x < 0 THEN -x ELSE x

IsPrefix(a, b) == Len(a) <= Len(b) /\ SubSeq(b, 1, Len(a)) = a

RECURSIVE SomaDe(_, _)
SomaDe(f, S) ==
  IF S = {} THEN 0
  ELSE LET x == CHOOSE y \in S : TRUE IN f[x] + SomaDe(f, S \ { x })

\* the score a cell of the CSV stands for, in half points
NotaDaCelula(cel) ==
  CASE cel = "0.0" -> 0 [] cel = "5.0" -> 10 [] cel = "7.5" -> 15
    [] cel = "10.0" -> 20 [] OTHER -> -1

\* the number a cell of MediasLidas stands for, in hundredths
ValorDaCelula(cel) ==
  CASE cel = "7.00" -> 700 [] cel = "8.00" -> 800 [] cel = "9.00" -> 900
    [] OTHER -> NaN

\* C1: when a session's submit as evaluator E has succeeded, it has appended
\* exactly three lines, the last three of the file: one for each of the
\* other three members of E's subgroup and nobody else, all with the same
\* timestamp, with avaliador_nome = E and avaliador_subgrupo = subgroup(E).
C1_TresRegistrosPorEnvio ==
  \A s \in Sessoes :
    (pc[s] = "idle" /\ mensagem[s] = "sucesso") =>
      LET e == enviadas[s]
          E == nome[s]
      IN  /\ Len(e) = 3
          /\ Len(arquivo) >= 3
          /\ SubSeq(arquivo, Len(arquivo) - 2, Len(arquivo)) = e
          /\ \E sg \in DOMAIN SUBGRUPOS :
               /\ E \in Elems(SUBGRUPOS[sg])
               /\ { e[k][4] : k \in 1..3 } = Elems(SUBGRUPOS[sg]) \ { E }
               /\ \A k \in 1..3 :
                    e[k][1] = e[1][1] /\ e[k][2] = E /\ e[k][3] = sg

\* a second submit, by a member of another subgroup and at another second,
\* has succeeded after a first one
C1_Witness ==
  /\ pc[1] = "idle" /\ mensagem[1] = "sucesso"
  /\ nome[1] = "Joao Pessoa"
  /\ Len(arquivo) = 7
  /\ arquivo[2][2] = "Walter Maia"
  /\ arquivo[7][1] # arquivo[2][1]

\* C2: a click on submit right after a successful submit, with no scoring
\* in between, appends no line to the file.
C2_ReenvioNaoGrava ==
  \A s \in Sessoes : reenvio[s] => enviadas[s] = << >>

\* C3: no line of the file has avaliador_nome equal to avaliado_nome.
C3_SemAutoavaliacao ==
  \A i \in 1..Len(arquivo) : arquivo[i][2] # arquivo[i][4]

\* a submit is writing its lines while the session's avaliacoes still holds
\* scores given to the evaluator by a colleague selected before
C3_Witness ==
  /\ pc[1] = "exists" /\ idx[1] = 3
  /\ nome[1] \in DOMAIN avaliacoes[1]
  /\ Len(arquivo) = 3

\* C4: a submit clicked while avaliacoes lacks one of the evaluator's three
\* colleagues writes nothing: the run it starts appends no line.
C4_IncompletoNaoGrava ==
  \A s \in Sessoes :
    faltavam[s] # << >> => enviadas[s] = << >>

\* C5: every step leaves the lines already in the file where they are (the
\* file before the step is a prefix of the file after it, and an existing
\* file stays), and a step of the organizer page leaves the file unchanged.
C5_SomenteAcrescenta ==
  [][ /\ IsPrefix(arquivo, arquivo')
      /\ existe => existe'
      /\ painel' # painel => (arquivo' = arquivo /\ existe' = existe) ]_vars

\* the organizer page shows tables of a file with the lines of two submits
C5_Witness ==
  /\ Len(arquivo) = 7
  /\ \E s \in Sessoes : painel[s].estado = "tabelas" /\ Len(painel[s].resumo) = 6

\* C6: consolidation has exactly one row per distinct avaliado_nome; its
\* ATSR is the mean of the numeric media_5_criterios cells of that person's
\* lines, to the nearest hundredth (7.00 and 9.00 give 8.00); a cell that
\* is no number is left out of the mean instead of counting as zero (no
\* numeric cell at all gives no number); Subgrupo is the subgroup of the
\* roster holding the name, or the marker when none holds it.
C6_Consolidacao ==
  painel[1].estado = "tabelas" =>
    LET r == painel[1].resumo
        recs == Tail(arquivo)
        nomes == { recs[i][4] : i \in 1..Len(recs) }
        valor == [ i \in 1..Len(recs) |-> ValorDaCelula(recs[i][10]) ]
        Num(nm) == { i \in 1..Len(recs) : recs[i][4] = nm /\ valor[i] # NaN }
    IN  /\ Len(r) = Cardinality(nomes)
        /\ { r[k].Integrante : k \in 1..Len(r) } = nomes
        /\ \A k \in 1..Len(r) :
             LET nm == r[k].Integrante
                 n == Cardinality(Num(nm))
                 soma == SomaDe(valor, Num(nm))
             IN  /\ n = 0 => r[k].ATSR = NaN
                 /\ n > 0 => /\ r[k].ATSR # NaN
                             /\ 2 * Abs(r[k].ATSR * n - soma) <= n
                 /\ { valor[i] : i \in Num(nm) } = { 700, 900 } /\ n = 2
                      => r[k].ATSR = 800
                 /\ \/ \E sg \in DOMAIN SUBGRUPOS :
                         nm \in Elems(SUBGRUPOS[sg]) /\ r[k].Subgrupo = sg
                    \/ /\ \A sg \in DOMAIN SUBGRUPOS : nm \notin Elems(SUBGRUPOS[sg])
                       /\ r[k].Subgrupo = DESCONHECIDO

\* lines 7.00, n/a and 9.00 of one person, consolidated to 8.00
C6_Witness ==
  /\ painel[1].estado = "tabelas"
  /\ Len(arquivo) = 4
  /\ \A i \in 2..4 : arquivo[i][4] = "Zeca Visitante"
  /\ << arquivo[2][10], arquivo[3][10], arquivo[4][10] >> = << "7.00", "n/a", "9.00" >>
  /\ painel[1].resumo =
       << [ Subgrupo |-> DESCONHECIDO, Integrante |-> "Zeca Visitante", ATSR |-> 800 ] >>

\* C7: the global ranking holds every consolidated person exactly once,
\* numbered from 1, by descending ATSR, equal ATSR by ascending subgroup
\* name and then ascending person name; of two people with ATSR 8.00 in
\* Subgrupo 01 and Subgrupo 02, the one of Subgrupo 01 comes first.
C7_RankingGeral ==
  painel[1].estado = "tabelas" =>
    LET g == painel[1].geral
        r == painel[1].resumo
    IN  /\ Len(g) = Len(r)
        /\ { << g[k].Subgrupo, g[k].Integrante, g[k].ATSR >> : k \in 1..Len(g) }
             = { << r[k].Subgrupo, r[k].Integrante, r[k].ATSR >> : k \in 1..Len(r) }
        /\ \A k \in 1..Len(g) : g[k].indice = k
        /\ \A i, j \in 1..Len(g) :
             (i < j /\ g[i].ATSR # NaN /\ g[j].ATSR # NaN) =>
               /\ g[i].ATSR >= g[j].ATSR
               /\ g[i].ATSR = g[j].ATSR => Lex(g[i].Subgrupo) <= Lex(g[j].Subgrupo)
               /\ (g[i].ATSR = g[j].ATSR /\ g[i].Subgrupo = g[j].Subgrupo)
                    => Lex(g[i].Integrante) < Lex(g[j].Integrante)
               /\ ~ ( /\ g[i].ATSR = 800 /\ g[j].ATSR = 800
                      /\ g[i].Subgrupo = "Subgrupo 02" /\ g[j].Subgrupo = "Subgrupo 01" )

\* two people with 8.00: Walter Maia of Subgrupo 01 is ranked before Joao
\* Pessoa of Subgrupo 02, whose name comes first
C7_Witness ==
  /\ painel[1].estado = "tabelas"
  /\ Len(painel[1].geral) = 3
  /\ painel[1].geral[2].Integrante = "Walter Maia" /\ painel[1].geral[2].ATSR = 800
  /\ painel[1].geral[3].Integrante = "Joao Pessoa" /\ painel[1].geral[3].ATSR = 800
  /\ painel[1].geral[1].ATSR = 900

\* C8: every line written by submit has five scores and the mean cell is
\* round(sum of the five scores / 5, 2) as a two-decimal string; the scores
\* of a line are the ones avaliacoes holds for that colleague during the
\* run, which are the latest values of the sliders.
C8_MediaDosCriterios ==
  /\ \A i \in 1..Len(arquivo) :
       arquivo[i] # cabecalho_csv =>
         LET notas == [ k \in 1..5 |-> NotaDaCelula(arquivo[i][4 + k]) ]
         IN  /\ \A k \in 1..5 : notas[k] \in 0..20
             /\ \E c \in (10 * Soma(notas) - 1)..(10 * Soma(notas) + 1) :
                  /\ c >= 0
                  /\ arquivo[i][10] = Fmt2(c)
                  /\ 2 * Abs(c * 2 * 5 - 100 * Soma(notas)) <= 2 * 5
  /\ \A s \in Sessoes :
       (pc[s] # "idle" \/ mensagem[s] = "sucesso") =>
         \A k \in 1..Len(enviadas[s]) :
           LET colega == enviadas[s][k][4]
           IN  /\ \A i \in 1..5 :
                    NotaDaCelula(enviadas[s][k][4 + i]) = sliders[s][colega][i]
               /\ pc[s] # "idle" => avaliacoes[s][colega] = sliders[s][colega]

\* a submit has succeeded whose last line has a score of 7.5 and the mean 5.50
C8_Witness ==
  /\ pc[1] = "idle" /\ mensagem[1] = "sucesso"
  /\ Len(arquivo) = 4
  /\ arquivo[4][9] = "7.5"
  /\ arquivo[4][10] = "5.50"

\* C9: once the file has a line, its first line is the header, the header
\* is there exactly once, and every other line is a record.
C9_CabecalhoUnico ==
  arquivo # << >> =>
    /\ arquivo[1] = cabecalho_csv
    /\ Cardinality({ i \in 1..Len(arquivo) : arquivo[i] = cabecalho_csv }) = 1

\* C10: a run of the organizer page with the right password, while the file
\* has no record (it is missing, or has no line but header lines), shows
\* the message that there are no answers yet.
C10_PainelSemRespostas ==
  [][ \A s \in Sessoes :
        ( /\ painel'[s] # painel[s]
          /\ modo'[s] = "Organizador"
          /\ senha'[s] = SENHA_ORGANIZADOR
          /\ \A i \in 1..Len(arquivo) : arquivo[i] = cabecalho_csv )
        => painel'[s].estado = "sem_respostas" ]_vars

=============================================================================
